---- MODULE Spec2Model ----
(***************************************************************************)
(* Model of the geodesic polygon offset (Polygon::enlarge and its three    *)
(* primitives, source/cpp/math/expandingPolygon.h) and of the yes/no       *)
(* prompt loop (App::run, src/app.cpp).                                    *)
(*                                                                         *)
(* Angles are integer ticks, PI ticks to the half turn.  calculateBearing  *)
(* yields even ticks only, so the mean of two bearings is an integer, as   *)
(* the division by two of two doubles is exact.  Coordinates are integers; *)
(* the spherical formulas are taken in their small-angle (planar) limit,   *)
(* with atan2 rounded to the nearest sixteenth of a turn and cos/sin read  *)
(* from a table scaled by 100.                                             *)
(***************************************************************************)
EXTENDS Integers, Sequences, FiniteSets, TLC

\* ---------------------------------------------------------------- bounds
MaxLat == 1
MaxN == 4
MaxCalls == 2

\* ------------------------------------------------------------- constants
PI == 16
max_attempts == 5

TwoPi == 2 * PI

Abs(a) == IF a < 0 THEN -a ELSE a

\* std::fmod on integers: the result has the sign of the dividend.
Fmod(a, m) == IF a >= 0 THEN a % m ELSE -((-a) % m)

LatLong(lat, lon) == [latitude |-> lat, longitude |-> lon]

\* cos over the first quarter turn, one entry per tick, scaled by 100.
CosQ == <<100, 98, 92, 83, 71, 56, 38, 20, 0>>

Cosine(b) ==
    LET k == ((b % TwoPi) + TwoPi) % TwoPi
        h == PI \div 2
    IN  IF k <= h THEN CosQ[k + 1]
        ELSE IF k <= PI THEN -CosQ[(PI - k) + 1]
        ELSE IF k <= PI + h THEN -CosQ[(k - PI) + 1]
        ELSE CosQ[(TwoPi - k) + 1]

Sine(b) == Cosine(b - PI \div 2)

\* std::atan2(y, x) in ticks, in (-PI, PI], rounded to the nearest PI/8;
\* atan2(0, 0) = 0.
Atan2(y, x) ==
    LET ax == Abs(x)
        ay == Abs(y)
        e  == PI \div 8
        a  == IF ay = 0 THEN 0
              ELSE IF ax = 0 THEN 4 * e
              ELSE IF ay * 1000 < ax * 199 THEN 0
              ELSE IF ay * 1000 < ax * 668 THEN e
              ELSE IF ay * 1000 < ax * 1497 THEN 2 * e
              ELSE IF ay * 1000 < ax * 5027 THEN 3 * e
              ELSE 4 * e
    IN  IF x >= 0
        THEN (IF y >= 0 THEN a ELSE -a)
        ELSE (IF y >= 0 THEN PI - a ELSE a - PI)

\* Initial bearing from -> to, shifted into [0, 2PI).
calculateBearing(from, to) ==
    LET y == to.longitude - from.longitude
        x == to.latitude - from.latitude
    IN  Fmod(Atan2(y, x) + 2 * PI, 2 * PI)

\* Lines 56-77 of calculateAngleBisector: the mean of the two bearings,
\* turned by PI when the normalised difference exceeds PI, then fmod 2PI.
BisectorBearingGE(bearing1, bearing2) ==
    LET bisectorBearing == (bearing1 + bearing2) \div 2
        d0 == bearing2 - bearing1
        angleDifference == IF d0 < 0 THEN d0 + 2 * PI ELSE d0
        adjusted == IF angleDifference >= PI THEN bisectorBearing + PI
                    ELSE bisectorBearing
    IN  Fmod(adjusted, 2 * PI)

BisectorBearing(bearing1, bearing2) ==
    LET bisectorBearing == (bearing1 + bearing2) \div 2
        d0 == bearing2 - bearing1
        angleDifference == IF d0 < 0 THEN d0 + 2 * PI ELSE d0
        adjusted == IF angleDifference > PI THEN bisectorBearing + PI
                    ELSE bisectorBearing
    IN  Fmod(adjusted, 2 * PI)

\* The source returns LatLong(cos b, sin b); b in [0, 2PI) is determined by
\* that pair, and the model carries b itself to movePoint.
calculateAngleBisector(prev, current, next) ==
    BisectorBearing(calculateBearing(current, prev),
                    calculateBearing(current, next))

\* Destination point, planar limit of the spherical direct formula.
movePoint(point, bearing, distance) ==
    LatLong(point.latitude + distance * Cosine(bearing),
            point.longitude + distance * Sine(bearing))

\* Circular neighbours of index i (0-based) in a polygon of n vertices.
PrevIndexClamped(i, n) == IF i = 0 THEN 0 ELSE i - 1

PrevIndex(i, n) == (i + n - 1) % n

NextIndex(i, n) == (i + 1) % n

At(v, i) == v[i + 1]

\* One iteration of the loop of enlarge: the vertex pushed for index i.
EnlargedVertex(v, i, distance) ==
    LET n == Len(v)
        bisector == calculateAngleBisector(At(v, PrevIndex(i, n)), At(v, i),
                                           At(v, NextIndex(i, n)))
    IN  movePoint(At(v, i), bisector, distance)

\* State of a std::vector after it was the source of a move assignment.
MovedFromCopy(v) == v

MovedFrom(v) == << >>

\* ------------------------------------------------------- app.cpp helpers
Upper == <<"A", "B", "C", "D", "E", "F", "G", "H", "I", "J", "K", "L", "M",
           "N", "O", "P", "Q", "R", "S", "T", "U", "V", "W", "X", "Y", "Z">>
Lower == <<"a", "b", "c", "d", "e", "f", "g", "h", "i", "j", "k", "l", "m",
           "n", "o", "p", "q", "r", "s", "t", "u", "v", "w", "x", "y", "z">>

\* std::tolower on one character.
tolower(c) ==
    IF \E k \in 1 .. Len(Upper) : Upper[k] = c
    THEN Lower[CHOOSE k \in 1 .. Len(Upper) : Upper[k] = c]
    ELSE c

\* Strings are sequences of one-character strings.
to_lower(str) == [k \in 1 .. Len(str) |-> tolower(str[k])]

Whitespace == {" ", "\t", "\n", "\r"}

trim(str) ==
    LET keep == {k \in 1 .. Len(str) : str[k] \notin Whitespace}
    IN  IF keep = {} THEN << >>
        ELSE LET start == CHOOSE k \in keep : \A m \in keep : k <= m
                 end   == CHOOSE k \in keep : \A m \in keep : m <= k
             IN  SubSeq(str, start, end)

is_affirmative(answer) ==
    to_lower(answer) \in {<<"y", "e", "s">>, <<"y">>, <<"s", "i">>,
                          <<"o", "u", "i">>, <<"d", "a">>, <<"j", "a">>}

is_negative(answer) ==
    to_lower(answer) \in {<<"n", "o">>, <<"n">>, <<"n", "o", "n">>,
                          <<"n", "e", "i", "n">>, <<"n", "y", "e", "t">>}

\* The condition of the while loop of App::run.
WhileCondLE(n) == n <= max_attempts

WhileCond(n) == n < max_attempts

\* ------------------------------------------------------------------ state
VARIABLES
    vertices,          \* Polygon::vertices
    enlargedVertices,  \* Polygon::enlargedVertices (declared std::vecotr, read as std::vector)
    outStorage,        \* whose buffer enlargedVertices holds: none, own, input
    trace,             \* one record per call of enlarge
    bearing1, bearing2, rotation,  \* inputs of the bisector computation
    bisectorBearing,   \* its result on (bearing1, bearing2)
    rotatedBearing,    \* its result on both bearings turned by rotation
    computed,          \* which of the two results are set
    pc,                \* App::run: "getline" or "done"
    attempts,          \* App::run::attempts
    answers,           \* the trimmed answers read so far, oldest first
    stdout,            \* what App::run printed in its loop
    rc                 \* return value of App::run, -1 while running

polyVars == <<vertices, enlargedVertices, outStorage, trace>>

bisVars == <<bearing1, bearing2, rotation, bisectorBearing, rotatedBearing, computed>>

appVars == <<pc, attempts, answers, stdout, rc>>

vars == <<polyVars, bisVars, appVars>>

Latitudes == 0 .. MaxLat
Longitudes == 0 .. 1
\* Input vertices lie on a grid whose step is one distance unit.
Points == {LatLong(a * Cosine(0), b * Cosine(0)) : a \in Latitudes, b \in Longitudes}
Distances == {-1, 0, 1}

SeqsUpTo(S, n) == UNION {[1 .. k -> S] : k \in 0 .. n}

PolyInit ==
    /\ vertices \in SeqsUpTo(Points, MaxN)
    /\ enlargedVertices = << >>
    /\ outStorage = "none"
    /\ trace = << >>

\* Polygon::enlarge(distance), lines 26-48.
enlarge(distance) ==
    /\ Len(trace) < MaxCalls
    /\ LET small  == Len(vertices) < 3
           zero   == (~small) /\ distance = 0
           out1   == IF zero THEN vertices ELSE enlargedVertices
           v1     == IF zero THEN MovedFrom(vertices) ELSE vertices
           pushed == IF small THEN << >>
                     ELSE [k \in 1 .. Len(v1) |-> EnlargedVertex(v1, k - 1, distance)]
       IN  /\ vertices' = v1
           /\ enlargedVertices' = out1 \o pushed
           /\ outStorage' = IF small THEN outStorage
                            ELSE IF zero THEN "input"
                            ELSE IF outStorage = "none" THEN "own"
                            ELSE outStorage
           /\ trace' = Append(trace,
                  [vertices |-> vertices, distance |-> distance,
                   before |-> enlargedVertices, computed |-> Len(pushed),
                   verticesAfter |-> v1, result |-> out1 \o pushed])
    /\ UNCHANGED <<bisVars, appVars>>

PolyNext == \E distance \in Distances : enlarge(distance)

PolyIdle ==
    /\ vertices = << >>
    /\ enlargedVertices = << >>
    /\ outStorage = "none"
    /\ trace = << >>

\* ------------------------------------------------- bisector, on its own
\* calculateBearing yields even ticks in [0, 2PI).
Bearings == {2 * k : k \in 0 .. PI - 1}

BisInit ==
    /\ bearing1 \in Bearings
    /\ bearing2 \in Bearings
    /\ rotation \in Bearings
    /\ bisectorBearing = 0
    /\ rotatedBearing = 0
    /\ computed = {}

BisIdle ==
    /\ bearing1 = 0
    /\ bearing2 = 0
    /\ rotation = 0
    /\ bisectorBearing = 0
    /\ rotatedBearing = 0
    /\ computed = {}

Bisect ==
    /\ "plain" \notin computed
    /\ bisectorBearing' = BisectorBearing(bearing1, bearing2)
    /\ computed' = computed \cup {"plain"}
    /\ UNCHANGED <<bearing1, bearing2, rotation, rotatedBearing>>
    /\ UNCHANGED <<polyVars, appVars>>

BisectRotated ==
    /\ "rotated" \notin computed
    /\ rotatedBearing' = BisectorBearing((bearing1 + rotation) % TwoPi,
                                         (bearing2 + rotation) % TwoPi)
    /\ computed' = computed \cup {"rotated"}
    /\ UNCHANGED <<bearing1, bearing2, rotation, bisectorBearing>>
    /\ UNCHANGED <<polyVars, appVars>>

BisNext == Bisect \/ BisectRotated

\* ------------------------------------------------------------- App::run
Lines ==
    { << >>,
      <<" ", "\t">>,
      <<"y">>,
      <<" ", "Y", "e", "s", " ">>,
      <<"o", "u", "i">>,
      <<"N", "O">>,
      <<"n", "e", "i", "n", "\r">>,
      <<"m", "a", "y", "b", "e">>,
      <<"y", " ", "e", "s">> }

\* One printed message; n is the number it carries, if any.
Msg(m) == [msg |-> m, n |-> 0]

\* After the welcome lines, the first loop test and the first prompt.
AppInit ==
    /\ pc = "getline"
    /\ attempts = 0
    /\ answers = << >>
    /\ stdout = <<Msg("prompt")>>
    /\ rc = -1

AppIdle ==
    /\ pc = "done"
    /\ attempts = 0
    /\ answers = << >>
    /\ stdout = << >>
    /\ rc = -1

\* One pass of the loop body with a line read, up to the next getline or
\* the return.
ReadLine(line) ==
    /\ pc = "getline"
    /\ LET answer == trim(line)
           n      == attempts + 1
           warn   == IF answer = << >> THEN <<Msg("provide")>> ELSE << >>
       IN  /\ attempts' = n
           /\ answers' = Append(answers, answer)
           /\ IF is_affirmative(answer)
              THEN /\ stdout' = stdout \o warn \o <<Msg("fantastic")>>
                   /\ rc' = 0
                   /\ pc' = "done"
              ELSE IF is_negative(answer)
              THEN /\ stdout' = stdout \o warn \o <<Msg("honesty")>>
                   /\ rc' = 0
                   /\ pc' = "done"
              ELSE LET left == IF n < max_attempts
                               THEN <<[msg |-> "remaining", n |-> max_attempts - n]>>
                               ELSE << >>
                   IN  IF WhileCond(n)
                       THEN /\ stdout' = stdout \o warn \o <<Msg("invalid")>> \o left
                                                \o <<Msg("prompt")>>
                            /\ rc' = rc
                            /\ pc' = "getline"
                       ELSE /\ stdout' = stdout \o warn \o <<Msg("invalid")>> \o left
                                                \o <<Msg("too many")>>
                            /\ rc' = 0
                            /\ pc' = "done"
    /\ UNCHANGED <<polyVars, bisVars>>

\* std::getline fails: return 1.
ReadFail ==
    /\ pc = "getline"
    /\ rc' = 1
    /\ pc' = "done"
    /\ UNCHANGED <<attempts, answers, stdout>>
    /\ UNCHANGED <<polyVars, bisVars>>

AppNext == (\E line \in Lines : ReadLine(line)) \/ ReadFail

\* ------------------------------------------------------- specifications
Init == PolyInit /\ BisIdle /\ AppIdle

Next == PolyNext

Spec == Init /\ [][Next]_vars

InitBisector == PolyIdle /\ BisInit /\ AppIdle

NextBisector == BisNext

SpecBisector == InitBisector /\ [][NextBisector]_vars

InitApp == PolyIdle /\ BisIdle /\ AppInit

NextApp == AppNext

SpecApp == InitApp /\ [][NextApp]_vars

\* ----------------------------------------------------------- properties
LastCall == trace[Len(trace)]

\* The vertices the loop of enlarge computes for input v and distance d.
Offset(v, d) == [k \in 1 .. Len(v) |-> EnlargedVertex(v, k - 1, d)]

\* C1: after every call with n >= 3 and a nonzero distance the output holds
\* exactly the n results of that call and nothing that was there before,
\* and a call repeating the previous call's vertices and distance leaves
\* the same result as the previous call did.
FreshOutputEachCall ==
    \A k \in 1 .. Len(trace) :
        LET r == trace[k]
        IN  (Len(r.vertices) >= 3 /\ r.distance # 0) =>
                /\ r.result = Offset(r.vertices, r.distance)
                /\ (k > 1 /\ trace[k - 1].vertices = r.vertices
                          /\ trace[k - 1].distance = r.distance)
                       => r.result = trace[k - 1].result

\* C2: after a call with n >= 3 and distance 0 the output is the vertex
\* sequence the call was given, entry by entry, and the loop computed
\* nothing.
ZeroDistanceIdentity ==
    (trace # << >> /\ Len(LastCall.vertices) >= 3 /\ LastCall.distance = 0) =>
        /\ Len(enlargedVertices) = Len(LastCall.vertices)
        /\ \A i \in 1 .. Len(LastCall.vertices) :
               enlargedVertices[i] = LastCall.vertices[i]
        /\ LastCall.computed = 0

\* A zero-distance call made on an output that an earlier call had filled.
ZeroDistanceAfterOffset ==
    /\ trace # << >>
    /\ Len(LastCall.vertices) >= 3
    /\ LastCall.distance = 0
    /\ LastCall.before # << >>

\* C3: no call changes the input vertex sequence, and the output never
\* holds the input's storage.
InputImmutable ==
    /\ \A k \in 1 .. Len(trace) : trace[k].verticesAfter = trace[k].vertices
    /\ outStorage # "input"

\* C4: after a call with n >= 3 and a nonzero distance the output has n
\* entries, and entry i is vertex i moved along its bisector.
CardinalityPreserved ==
    (trace # << >> /\ Len(LastCall.vertices) >= 3 /\ LastCall.distance # 0) =>
        /\ Len(enlargedVertices) = Len(vertices)
        /\ \A i \in 0 .. Len(vertices) - 1 :
               At(enlargedVertices, i) =
                   movePoint(At(vertices, i),
                             calculateAngleBisector(
                                 At(vertices, PrevIndex(i, Len(vertices))),
                                 At(vertices, i),
                                 At(vertices, NextIndex(i, Len(vertices)))),
                             LastCall.distance)

\* C5: after a call on fewer than 3 vertices the output is empty.
DegenerateNoOp ==
    (trace # << >> /\ Len(LastCall.vertices) < 3) => enlargedVertices = << >>

Square ==
    <<LatLong(0, 0), LatLong(0, Cosine(0)),
      LatLong(Cosine(0), Cosine(0)), LatLong(Cosine(0), 0)>>

\* Sum of the latitudes (longitudes) of a vertex sequence.
RECURSIVE SumLat(_)
SumLat(v) == IF v = << >> THEN 0 ELSE v[1].latitude + SumLat(Tail(v))

RECURSIVE SumLon(_)
SumLon(v) == IF v = << >> THEN 0 ELSE v[1].longitude + SumLon(Tail(v))

\* The move from p to q has a positive component along the direction from
\* the centroid of v to p.
AwayFromCentroid(v, p, q) ==
    (q.latitude - p.latitude) * (Len(v) * p.latitude - SumLat(v))
    + (q.longitude - p.longitude) * (Len(v) * p.longitude - SumLon(v)) > 0

\* C6: the first call on the square (0,0),(0,1),(1,1),(1,0) with d > 0 moves
\* every vertex away from the centroid.
ConvexOutward ==
    (Len(trace) = 1 /\ LastCall.vertices = Square /\ LastCall.distance > 0) =>
        \A i \in 1 .. Len(Square) :
            AwayFromCentroid(Square, Square[i], enlargedVertices[i])

NaiveMean == (bearing1 + bearing2) \div 2

Turn == (bearing2 - bearing1 + TwoPi) % TwoPi

\* C7: the bisector bearing is the mean of the two bearings when the turn
\* from bearing1 to bearing2 is at most PI, is PI away from the mean
\* (mod 2PI) when the turn exceeds PI, and lies in [0, 2PI).
ReflexCorrection ==
    "plain" \in computed =>
        /\ (Turn <= PI => bisectorBearing = NaiveMean)
        /\ (Turn > PI => (bisectorBearing - NaiveMean + TwoPi) % TwoPi = PI)
        /\ bisectorBearing >= 0
        /\ bisectorBearing < TwoPi

\* The bisector was computed at a reflex vertex.
ReflexComputed == "plain" \in computed /\ Turn > PI

\* C8: turning both bearings by the same angle turns the bisector by that
\* angle.
RotationConsistent ==
    computed = {"plain", "rotated"} =>
        rotatedBearing = (bisectorBearing + rotation) % TwoPi

\* C9: in a call with n >= 3 and a nonzero distance, for every index i the
\* neighbours (i - 1 + n) mod n and (i + 1) mod n are indices, differ from i
\* and from each other, and the entry pushed for i is the same whatever
\* stands at any other index of the input and whatever the output held.
CircularLocality ==
    (trace # << >> /\ Len(LastCall.vertices) >= 3 /\ LastCall.distance # 0) =>
        LET v == LastCall.vertices
            n == Len(v)
        IN  \A i \in 0 .. n - 1 :
                /\ PrevIndex(i, n) = (i - 1 + n) % n
                /\ NextIndex(i, n) = (i + 1) % n
                /\ {PrevIndex(i, n), NextIndex(i, n)} \subseteq 0 .. n - 1
                /\ Cardinality({PrevIndex(i, n), i, NextIndex(i, n)}) = 3
                /\ \A j \in (0 .. n - 1) \ {(i - 1 + n) % n, i, (i + 1) % n} :
                       \A p \in Points :
                           At(enlargedVertices, Len(LastCall.before) + i) =
                               EnlargedVertex([v EXCEPT ![j + 1] = p], i,
                                              LastCall.distance)

\* A nonzero call on a polygon that has a vertex which is no neighbour.
OffsetOfQuadrilateral ==
    /\ trace # << >>
    /\ Len(LastCall.vertices) >= 4
    /\ LastCall.distance # 0
    /\ LastCall.before # << >>

IsAnswer(a) == is_affirmative(a) \/ is_negative(a)

\* C10: every line read takes one attempt, attempts never exceeds
\* max_attempts, run waits for a line only while fewer than max_attempts
\* were read, only the last answer read can be a yes or a no and run has
\* then returned 0, a failed read returns 1, and every announced count of
\* remaining attempts is between 1 and max_attempts - 1.
RunBounded ==
    /\ attempts = Len(answers)
    /\ attempts <= max_attempts
    /\ (pc = "getline" => attempts < max_attempts /\ rc = -1)
    /\ (pc = "done" => rc \in {0, 1})
    /\ (rc = 1 => \A k \in 1 .. Len(answers) : ~IsAnswer(answers[k]))
    /\ \A k \in 1 .. Len(answers) :
           IsAnswer(answers[k]) => (k = Len(answers) /\ pc = "done" /\ rc = 0)
    /\ (attempts = max_attempts => pc = "done")
    /\ \A k \in 1 .. Len(stdout) :
           stdout[k].msg = "remaining" =>
               (stdout[k].n >= 1 /\ stdout[k].n <= max_attempts - 1)

\* All attempts were used up on answers that are neither yes nor no.
AttemptsExhausted ==
    /\ pc = "done"
    /\ attempts = max_attempts
    /\ ~IsAnswer(answers[max_attempts])
    /\ \E k \in 1 .. Len(stdout) : stdout[k].msg = "remaining" /\ stdout[k].n = 1

====
